---------------------------- MODULE Spec2Model ----------------------------
(***************************************************************************)
(* A model of the barcode / QR code generator API of src/main.py: the      *)
(* request schemas (pydantic), the three helpers create_barcode_image,      *)
(* create_qr_code_image and scan_codes_from_image, and the three endpoint   *)
(* handlers create_barcode, create_qr_code and scan_image.                  *)
(*                                                                         *)
(* Conventions.                                                            *)
(*  - Free text (data, payloads) is a sequence of characters, one string    *)
(*    each: a printable ASCII character is itself ("1", " "), tab, line     *)
(*    feed, form feed and carriage return are "\t", "\n", "\f", "\r", and    *)
(*    any other character is written by its code point ("U+000B",           *)
(*    "U+00A0"; so is the grave accent, "U+0060").  Enumerated literals     *)
(*    (field names) are TLA+ strings.                                       *)
(*  - A text built by an f-string is the sequence of its parts, in order.   *)
(*  - A JSON value is tagged: Str(s), Num(n), Frac(tenths), BigNum(sign,    *)
(*    digits) or Null.  A JSON body is a                                    *)
(*    function from the names of the fields it supplies to JSON values.     *)
(*  - Floats are counted in tenths (2.0 is 20, 6.5 is 65).                  *)
(*  - Of an uploaded file the first bytes and the size are kept.            *)
(*  - The external libraries (python-barcode, qrcode, cv2, pyzbar) and the  *)
(*    upload stream are the environment: what they return or raise is an    *)
(*    input of the action that calls them.                                  *)
(***************************************************************************)
EXTENDS Integers, Sequences, FiniteSets, TLC

VARIABLES
    req,        \* the request being answered, as received
    resp,       \* the response sent for it
    calls,      \* the registry lookups, reads and library calls made for it, in order
    hashSeed,   \* the string-hash key of the running process (PYTHONHASHSEED)
    suspended   \* the uploads whose scan_image is waiting in "await image.read()"

vars == <<req, resp, calls, hashSeed, suspended>>

----------------------------------------------------------------------------
(* Bounds of the model *)

\* longest free text enumerated over the input alphabet
MaxDataLen == 2
\* most symbols the detector reports in one image
MaxDetections == 2
\* most scans waiting for their upload to be read at one time
MaxSuspended == 1

----------------------------------------------------------------------------
(* Text *)

\* the characters str.strip() removes: every c with c.isspace(), which are
\* U+0009..U+000D, U+001C..U+001F, U+0020, U+0085, U+00A0, U+1680,
\* U+2000..U+200A, U+2028, U+2029, U+202F, U+205F and U+3000
Whitespace ==
    {"\t", "\n", "U+000B", "\f", "\r", "U+001C",
     "U+001D", "U+001E", "U+001F", " ", "U+0085", "U+00A0",
     "U+1680", "U+2000", "U+2001", "U+2002", "U+2003", "U+2004",
     "U+2005", "U+2006", "U+2007", "U+2008", "U+2009", "U+200A",
     "U+2028", "U+2029", "U+202F", "U+205F", "U+3000"}

RECURSIVE LStrip(_)
LStrip(s) ==
    IF s # <<>> /\ Head(s) \in Whitespace THEN LStrip(Tail(s)) ELSE s

RECURSIVE RStrip(_)
RStrip(s) ==
    IF s # <<>> /\ s[Len(s)] \in Whitespace
    THEN RStrip(SubSeq(s, 1, Len(s) - 1))
    ELSE s

\* str.strip()
Strip(s) == RStrip(LStrip(s))

\* str.startswith(prefix)
StartsWith(s, prefix) ==
    /\ Len(prefix) <= Len(s)
    /\ SubSeq(s, 1, Len(prefix)) = prefix

DigitChars == {"0", "1", "2", "3", "4", "5", "6", "7", "8", "9"}

AllDigits(s) == \A i \in DOMAIN s : s[i] \in DigitChars

\* str(int)
DigitChar(d) == <<"0", "1", "2", "3", "4", "5", "6", "7", "8", "9">>[d + 1]

RECURSIVE NatToStr(_)
NatToStr(n) ==
    IF n < 10 THEN <<DigitChar(n)>>
    ELSE NatToStr(n \div 10) \o <<DigitChar(n % 10)>>

IntToStr(n) == IF n < 0 THEN <<"-">> \o NatToStr(-n) ELSE NatToStr(n)

----------------------------------------------------------------------------
(* JSON values *)

Str(s) == [t |-> "str", s |-> s]
Num(n) == [t |-> "num", n |-> n]
Null == [t |-> "null"]

IsStr(j) == j.t = "str"
IsNum(j) == j.t = "num"
\* a JSON number that is not whole, in tenths (1.5 is Frac(15))
Frac(tenths) == [t |-> "frac", tenths |-> tenths]
IsFrac(j) == j.t = "frac"
\* a JSON integer literal of ten digits or more: its sign (1 or -1) and the
\* number of its digits are kept
BigNum(sign, digits) == [t |-> "bignum", sign |-> sign, digits |-> digits]
IsBigNum(j) == j.t = "bignum"
IsNull(j) == j.t = "null"

Has(body, f) == f \in DOMAIN body

\* body with field f set to value j (added when absent)
With(body, f, j) ==
    [g \in DOMAIN body \cup {f} |-> IF g = f THEN j ELSE body[g]]

\* body without field f
Without(body, f) == [g \in DOMAIN body \ {f} |-> body[g]]


----------------------------------------------------------------------------
(* What a call into a library, or a step of a handler, does: it returns a
   value or raises an exception whose str() is msg (a sequence of parts). *)

Returned(x) == [raised |-> FALSE, value |-> x]
Raised(msg) == [raised |-> TRUE, msg |-> msg]

\* HTTPException(status_code=..., detail=...)
HTTPException(status, detail) == [status_code |-> status, detail |-> detail]

\* FastAPI's answer to a raised HTTPException: the status and {"detail": detail}
ErrorResponse(exc) ==
    [status |-> exc.status_code, kind |-> "error", detail |-> exc.detail]

\* FastAPI's answer to a body the schema rejects: 422 and the list of errors
ValidationResponse(errors) ==
    [status |-> 422, kind |-> "validation", detail |-> errors]

ValidationErr(f, type) == [loc |-> f, type |-> type]

----------------------------------------------------------------------------
(* Field validation (pydantic, lax mode): a numeric field takes a JSON
   number, null, or a string that spells a number. *)

\* str = Field(..., min_length=n): required
RequiredStr(body, f, minLen) ==
    IF ~Has(body, f) THEN <<ValidationErr(f, "missing")>>
    ELSE IF ~IsStr(body[f]) THEN <<ValidationErr(f, "string_type")>>
    ELSE IF Len(body[f].s) < minLen THEN <<ValidationErr(f, "string_too_short")>>
    ELSE <<>>

\* Literal[...]: Field(...) when required, Field(default=...) otherwise
LiteralField(body, f, allowed, required) ==
    IF ~Has(body, f)
    THEN IF required THEN <<ValidationErr(f, "missing")>> ELSE <<>>
    ELSE IF IsStr(body[f]) /\ body[f].s \in allowed THEN <<>>
    ELSE <<ValidationErr(f, "literal_error")>>

\* one bound of a numeric Field
BoundHolds(c, n) ==
    CASE c.op = "gt" -> n > c.n
      [] c.op = "ge" -> n >= c.n
      [] c.op = "le" -> n <= c.n

BoundErrType(c) ==
    CASE c.op = "gt" -> "greater_than"
      [] c.op = "ge" -> "greater_than_equal"
      [] c.op = "le" -> "less_than_equal"

\* the first bound of cs that n breaks, as an error; none: <<>>
RECURSIVE FirstBroken(_, _, _)
FirstBroken(f, cs, n) ==
    IF cs = <<>> THEN <<>>
    ELSE IF ~BoundHolds(Head(cs), n) THEN <<ValidationErr(f, BoundErrType(Head(cs)))>>
    ELSE FirstBroken(f, Tail(cs), n)

\* The numbers a string spells.  Two spellings are read: an optional sign
\* and digits ("3", "-10"), and the same followed by a point and one digit
\* ("3.5").  A string with a character that no spelling of a number has is
\* not a number.  What the parser makes of any other string (exponents,
\* underscores, blanks around the digits, inf, nan, more decimals) is not
\* defined here.  A number of ten digits or more is kept as its sign and
\* the number of its digits.
DigitValue(c) ==
    CASE c = "0" -> 0  [] c = "1" -> 1  [] c = "2" -> 2  [] c = "3" -> 3
      [] c = "4" -> 4  [] c = "5" -> 5  [] c = "6" -> 6  [] c = "7" -> 7
      [] c = "8" -> 8  [] c = "9" -> 9

RECURSIVE DigitsToNat(_)
DigitsToNat(s) ==
    IF s = <<>> THEN 0
    ELSE DigitsToNat(SubSeq(s, 1, Len(s) - 1)) * 10 + DigitValue(s[Len(s)])

SignOf(s) == IF s # <<>> /\ Head(s) = "-" THEN -1 ELSE 1

Unsigned(s) == IF s # <<>> /\ Head(s) \in {"+", "-"} THEN Tail(s) ELSE s

\* the digits s without its leading zeros (one digit is kept)
Significant(s) ==
    LET nonzero == {i \in DOMAIN s : s[i] # "0"} IN
    IF s = <<>> THEN s
    ELSE IF nonzero = {} THEN <<s[Len(s)]>>
    ELSE SubSeq(s, CHOOSE i \in nonzero : \A j \in nonzero : i <= j, Len(s))

IsIntText(s) == Unsigned(s) # <<>> /\ AllDigits(Unsigned(s))

IsDecimalText(s) ==
    LET u == Unsigned(s) IN
    /\ Len(u) >= 3
    /\ u[Len(u) - 1] = "."
    /\ AllDigits(SubSeq(u, 1, Len(u) - 2))
    /\ u[Len(u)] \in DigitChars

\* the characters the spellings of an int are made of
IntSpellingChars == DigitChars \cup Whitespace \cup {"+", "-", ".", "_", "e", "E"}

\* the characters the spellings of a float are made of (inf, infinity, nan)
FloatSpellingChars ==
    IntSpellingChars \cup {"i", "n", "f", "t", "y", "a", "I", "N", "F", "T", "Y", "A"}

Parsed(n) == [ok |-> TRUE, large |-> FALSE, n |-> n]
ParsedLarge(sign, digits) == [ok |-> TRUE, large |-> TRUE, sign |-> sign, digits |-> digits]
NotParsed(type) == [ok |-> FALSE, type |-> type]

\* str -> float, in tenths
ParseFloat(s) ==
    CASE IsIntText(s) ->
            LET z == Significant(Unsigned(s)) IN
            IF Len(z) <= 8 THEN Parsed(SignOf(s) * DigitsToNat(z) * 10)
            ELSE ParsedLarge(SignOf(s), Len(z))
      [] IsDecimalText(s) ->
            LET u == Unsigned(s)
                z == Significant(SubSeq(u, 1, Len(u) - 2)) IN
            IF Len(z) <= 8
            THEN Parsed(SignOf(s) * (DigitsToNat(z) * 10 + DigitValue(u[Len(u)])))
            ELSE ParsedLarge(SignOf(s), Len(z))
      [] s = <<>> \/ (\E i \in DOMAIN s : s[i] \notin FloatSpellingChars) ->
            NotParsed("float_parsing")

\* str -> int, in two attempts.  The text is first read as it is given, as
\* a JSON number: when it begins with more than 4300 digits, the first of
\* them not a zero, the reading stops there and the text is refused for its
\* size, whatever follows the digits.  Otherwise the text is cleaned of a
\* leading plus sign, of leading zeros and of a point followed by zeros
\* only, and read again: it is parsed when digits are left, at most 4300 of
\* them, and int_parsing is the error of any failure of this second
\* attempt.  What becomes of a text of more than
\* 4300 characters that begins with a minus sign, or with more than 4300
\* digits the first of which is a zero and that is not a whole number, is
\* not defined here.
ParseInt(s) ==
    LET LeadingDigits ==
            IF AllDigits(s) THEN Len(s)
            ELSE (CHOOSE i \in DOMAIN s :
                      /\ s[i] \notin DigitChars
                      /\ \A j \in 1..(i - 1) : s[j] \in DigitChars) - 1
        Within ==
            \/ Len(s) <= 4300
            \/ Head(s) # "-" /\ LeadingDigits <= 4300
        Whole == SubSeq(s, 1, LeadingDigits)
        WholeWithZeros ==
            /\ LeadingDigits >= 1
            /\ Len(s) >= LeadingDigits + 2
            /\ s[LeadingDigits + 1] = "."
            /\ \A i \in (LeadingDigits + 2)..Len(s) : s[i] = "0"
    IN
    CASE s # <<>> /\ Head(s) \in DigitChars \ {"0"} /\ LeadingDigits > 4300 ->
            NotParsed("int_parsing_size")
      [] /\ IsIntText(s)
         /\ \/ Len(s) <= 4300
            \/ Head(s) \in {"+", "0"} /\ Len(Significant(Unsigned(s))) <= 4300 ->
            LET z == Significant(Unsigned(s)) IN
            IF Len(z) <= 9 THEN Parsed(SignOf(s) * DigitsToNat(z))
            ELSE ParsedLarge(SignOf(s), Len(z))
      [] IsIntText(s) /\ Head(s) = "+" /\ Len(Significant(Unsigned(s))) > 4300 ->
            NotParsed("int_parsing")
      [] WholeWithZeros /\ Len(Significant(Whole)) <= 4300 ->
            LET z == Significant(Whole) IN
            IF Len(z) <= 9 THEN Parsed(DigitsToNat(z)) ELSE ParsedLarge(1, Len(z))
      [] IsDecimalText(s) /\ s[Len(s)] # "0" /\ Within -> NotParsed("int_parsing")
      [] (s = <<>> \/ (\E i \in DOMAIN s : s[i] \notin IntSpellingChars)) /\ Within ->
            NotParsed("int_parsing")

\* where a number of ten digits or more lies with respect to the bounds of
\* the schemas, none of which is beyond 100: where 10^9 or -10^9 lies
BeyondBounds(sign) == sign * 10^9

\* the bounds applied to a parsed number
ParsedBroken(f, cs, p) ==
    IF p.large THEN FirstBroken(f, cs, BeyondBounds(p.sign))
    ELSE FirstBroken(f, cs, p.n)

\* Optional[float] = Field(default=..., <bounds>): absent and null pass.  A
\* JSON integer is converted to a float: one of 310 digits or more is
\* beyond the floats, one of up to 308 digits is not (309 digits: not
\* defined here).
OptionalNumber(body, f, cs) ==
    IF ~Has(body, f) \/ IsNull(body[f]) THEN <<>>
    ELSE IF IsNum(body[f]) THEN FirstBroken(f, cs, body[f].n)
    ELSE IF IsFrac(body[f]) THEN FirstBroken(f, cs, body[f].tenths)
    ELSE IF IsBigNum(body[f])
    THEN CASE body[f].digits >= 310 -> <<ValidationErr(f, "float_type")>>
           [] body[f].digits <= 308 -> FirstBroken(f, cs, BeyondBounds(body[f].sign))
    ELSE LET p == ParseFloat(body[f].s) IN
         IF p.ok THEN ParsedBroken(f, cs, p)
         ELSE <<ValidationErr(f, p.type)>>

\* Optional[int] = Field(default=..., <bounds>): absent and null pass, a
\* number with a fractional part is not an int
OptionalInt(body, f, cs) ==
    IF ~Has(body, f) \/ IsNull(body[f]) THEN <<>>
    ELSE IF IsNum(body[f]) THEN FirstBroken(f, cs, body[f].n)
    ELSE IF IsFrac(body[f]) THEN <<ValidationErr(f, "int_from_float")>>
    ELSE IF IsBigNum(body[f]) THEN FirstBroken(f, cs, BeyondBounds(body[f].sign))
    ELSE LET p == ParseInt(body[f].s) IN
         IF p.ok THEN ParsedBroken(f, cs, p)
         ELSE <<ValidationErr(f, p.type)>>

\* json.loads of the request body: an integer literal of more than 4300
\* digits is beyond the interpreter's str -> int conversion, and the body
\* is refused as a whole
BodyParses(body) ==
    \A f \in DOMAIN body : IsBigNum(body[f]) => body[f].digits <= 4300

\* FastAPI's answer to a body json.loads fails on
BodyParseError == HTTPException(400, <<"There was an error parsing the body">>)

\* the value a parsed number has in the request
NumberOf(p) == IF p.large THEN BigNum(p.sign, p.digits) ELSE Num(p.n)

\* Optional[str] = Field(default=...)
OptionalStr(body, f) ==
    IF ~Has(body, f) \/ IsNull(body[f]) \/ IsStr(body[f]) THEN <<>>
    ELSE <<ValidationErr(f, "string_type")>>

\* the value of a field after validation: the one supplied, or the default
FieldOr(body, f, default) == IF Has(body, f) THEN body[f] ELSE default

\* the value of a float field (in tenths) and of an int field after
\* validation: the number supplied or spelled, null, or the default
FloatField(body, f, default) ==
    IF ~Has(body, f) THEN default
    ELSE IF IsStr(body[f]) THEN NumberOf(ParseFloat(body[f].s))
    ELSE IF IsFrac(body[f]) THEN Num(body[f].tenths)
    ELSE body[f]

IntField(body, f, default) ==
    IF ~Has(body, f) THEN default
    ELSE IF IsStr(body[f]) THEN NumberOf(ParseInt(body[f].s))
    ELSE body[f]

----------------------------------------------------------------------------
(* The texts the code names, as sequences of characters *)

T_code128 == <<"c", "o", "d", "e", "1", "2", "8">>
T_code39 == <<"c", "o", "d", "e", "3", "9">>
T_ean8 == <<"e", "a", "n", "8">>
T_ean13 == <<"e", "a", "n", "1", "3">>
T_ean14 == <<"e", "a", "n", "1", "4">>
T_jan == <<"j", "a", "n">>
T_upc == <<"u", "p", "c">>
T_isbn10 == <<"i", "s", "b", "n", "1", "0">>
T_isbn13 == <<"i", "s", "b", "n", "1", "3">>
T_issn == <<"i", "s", "s", "n">>
T_itf == <<"i", "t", "f">>
T_pzn == <<"p", "z", "n">>
T_qrcode == <<"q", "r", "c", "o", "d", "e">>
T_invalid_format == <<"i", "n", "v", "a", "l", "i", "d", "_", "f", "o", "r", "m", "a", "t">>
T_base64 == <<"b", "a", "s", "e", "6", "4">>
T_image == <<"i", "m", "a", "g", "e">>
T_pdf == <<"p", "d", "f">>
T_white == <<"w", "h", "i", "t", "e">>
T_black == <<"b", "l", "a", "c", "k">>
T_L == <<"L">>
T_M == <<"M">>
T_Q == <<"Q">>
T_H == <<"H">>
T_X == <<"X">>

----------------------------------------------------------------------------
(* The format registry and the barcode request schema *)

\* the registry with one key of the schema's Literal left out
BARCODE_FORMATS_WithoutPzn ==
    {T_code128, T_code39, T_ean8, T_ean13, T_ean14, T_jan,
     T_upc, T_isbn10, T_isbn13, T_issn, T_itf}

BARCODE_FORMATS ==
    {T_code128, T_code39, T_ean8, T_ean13, T_ean14, T_jan,
     T_upc, T_isbn10, T_isbn13, T_issn, T_itf, T_pzn}

\* BarcodeGenerationRequest.format: Literal[...]
BarcodeFormatLiteral ==
    {T_code128, T_code39, T_ean8, T_ean13, T_ean14,
     T_jan, T_upc, T_isbn10, T_isbn13, T_issn, T_itf, T_pzn}

ReturnFormatLiteral == {T_base64, T_image}

\* the bounds with width declared ge=0 where the code has gt=0
BarcodeNumberBounds_WidthGe ==
    [width         |-> <<[op |-> "ge", n |-> 0]>>,
     height        |-> <<[op |-> "gt", n |-> 0]>>,
     quiet_zone    |-> <<[op |-> "ge", n |-> 0]>>,
     font_size     |-> <<[op |-> "ge", n |-> 1], [op |-> "le", n |-> 100]>>,
     text_distance |-> <<[op |-> "ge", n |-> 0]>>]

\* the bounds of the styling fields of BarcodeGenerationRequest
BarcodeNumberBounds_FontSizeUncapped ==
    [width         |-> <<[op |-> "gt", n |-> 0]>>,
     height        |-> <<[op |-> "gt", n |-> 0]>>,
     quiet_zone    |-> <<[op |-> "ge", n |-> 0]>>,
     font_size     |-> <<[op |-> "ge", n |-> 1]>>,
     text_distance |-> <<[op |-> "ge", n |-> 0]>>]

BarcodeNumberBounds ==
    [width         |-> <<[op |-> "gt", n |-> 0]>>,
     height        |-> <<[op |-> "gt", n |-> 0]>>,
     quiet_zone    |-> <<[op |-> "ge", n |-> 0]>>,
     font_size     |-> <<[op |-> "ge", n |-> 1], [op |-> "le", n |-> 100]>>,
     text_distance |-> <<[op |-> "ge", n |-> 0]>>]

\* the defaults of the styling fields (floats in tenths)
BarcodeDefaults ==
    [return_format    |-> Str(T_base64),
     width            |-> Num(20),
     height           |-> Num(150),
     quiet_zone       |-> Num(65),
     font_size        |-> Num(10),
     text_distance    |-> Num(50),
     background_color |-> Str(T_white),
     foreground_color |-> Str(T_black)]

\* the validator returning its argument untrimmed
validate_data_Untrimmed(v) == v

\* @field_validator('data'): runs on a value that passed min_length
validate_data(v) == Strip(v)

\* the errors pydantic reports for a body, in field order
BarcodeErrors(body) ==
    RequiredStr(body, "data", 1)
    \o LiteralField(body, "format", BarcodeFormatLiteral, TRUE)
    \o LiteralField(body, "return_format", ReturnFormatLiteral, FALSE)
    \o OptionalNumber(body, "width", BarcodeNumberBounds.width)
    \o OptionalNumber(body, "height", BarcodeNumberBounds.height)
    \o OptionalNumber(body, "quiet_zone", BarcodeNumberBounds.quiet_zone)
    \o OptionalInt(body, "font_size", BarcodeNumberBounds.font_size)
    \o OptionalNumber(body, "text_distance", BarcodeNumberBounds.text_distance)
    \o OptionalStr(body, "background_color")
    \o OptionalStr(body, "foreground_color")

\* the BarcodeGenerationRequest built from a body that has no errors
BarcodeGenerationRequest(body) ==
    [data             |-> validate_data(body.data.s),
     format           |-> body.format.s,
     return_format    |-> FieldOr(body, "return_format", BarcodeDefaults.return_format).s,
     width            |-> FloatField(body, "width", BarcodeDefaults.width),
     height           |-> FloatField(body, "height", BarcodeDefaults.height),
     quiet_zone       |-> FloatField(body, "quiet_zone", BarcodeDefaults.quiet_zone),
     font_size        |-> IntField(body, "font_size", BarcodeDefaults.font_size),
     text_distance    |-> FloatField(body, "text_distance", BarcodeDefaults.text_distance),
     background_color |-> FieldOr(body, "background_color", BarcodeDefaults.background_color),
     foreground_color |-> FieldOr(body, "foreground_color", BarcodeDefaults.foreground_color)]

----------------------------------------------------------------------------
(* base64.b64encode(bytes).decode('utf-8') *)

B64Alphabet ==
    <<"A", "B", "C", "D", "E", "F", "G", "H", "I", "J", "K", "L", "M",
      "N", "O", "P", "Q", "R", "S", "T", "U", "V", "W", "X", "Y", "Z",
      "a", "b", "c", "d", "e", "f", "g", "h", "i", "j", "k", "l", "m",
      "n", "o", "p", "q", "r", "s", "t", "u", "v", "w", "x", "y", "z",
      "0", "1", "2", "3", "4", "5", "6", "7", "8", "9", "+", "/">>

B64Char(i) == B64Alphabet[i + 1]

RECURSIVE b64encode(_)
b64encode(bytes) ==
    IF bytes = <<>> THEN <<>>
    ELSE IF Len(bytes) = 1 THEN
        <<B64Char(bytes[1] \div 4), B64Char((bytes[1] % 4) * 16), "=", "=">>
    ELSE IF Len(bytes) = 2 THEN
        <<B64Char(bytes[1] \div 4),
          B64Char((bytes[1] % 4) * 16 + bytes[2] \div 16),
          B64Char((bytes[2] % 16) * 4), "=">>
    ELSE
        <<B64Char(bytes[1] \div 4),
          B64Char((bytes[1] % 4) * 16 + bytes[2] \div 16),
          B64Char((bytes[2] % 16) * 4 + bytes[3] \div 64),
          B64Char(bytes[3] % 64)>>
        \o b64encode(SubSeq(bytes, 4, Len(bytes)))

----------------------------------------------------------------------------
(* create_barcode_image and the /create-barcode endpoint *)

\* the printable characters of ASCII (the grave accent by its code point)
PrintableAscii ==
    {" ", "!", "\"", "#", "$", "%", "&", "'", "(", ")", "*", "+",
     ",", "-", ".", "/", "0", "1", "2", "3", "4", "5", "6", "7",
     "8", "9", ":", ";", "<", "=", ">", "?", "@", "A", "B", "C",
     "D", "E", "F", "G", "H", "I", "J", "K", "L", "M", "N", "O",
     "P", "Q", "R", "S", "T", "U", "V", "W", "X", "Y", "Z", "[",
     "\\", "]", "^", "_", "U+0060", "a", "b", "c", "d", "e", "f", "g",
     "h", "i", "j", "k", "l", "m", "n", "o", "p", "q", "r", "s",
     "t", "u", "v", "w", "x", "y", "z", "{", "|", "}", "~"}

\* one character of a text as repr() writes it between the quotes quote:
\* the quote and the backslash behind a backslash, a character that is not
\* printable as its escape.  The characters of the model are written out;
\* a character given by its code point that is not one of those below is
\* printable or not by its Unicode category, which is not defined here.
ReprChar(c, quote) ==
    CASE c = quote -> <<"\\", c>>
      [] c = "\\" -> <<"\\", "\\">>
      [] c \in PrintableAscii /\ c # quote /\ c # "\\" -> <<c>>
      [] c = "\t" -> <<"\\", "t">>
      [] c = "\n" -> <<"\\", "n">>
      [] c = "\r" -> <<"\\", "r">>
      [] c = "\f" -> <<"\\", "x", "0", "c">>
      [] c = "U+000B" -> <<"\\", "x", "0", "b">>
      [] c = "U+001C" -> <<"\\", "x", "1", "c">>
      [] c = "U+001D" -> <<"\\", "x", "1", "d">>
      [] c = "U+001E" -> <<"\\", "x", "1", "e">>
      [] c = "U+001F" -> <<"\\", "x", "1", "f">>
      [] c = "U+0085" -> <<"\\", "x", "8", "5">>
      [] c = "U+00A0" -> <<"\\", "x", "a", "0">>
      [] c = "U+1680" -> <<"\\", "u", "1", "6", "8", "0">>
      [] c = "U+2000" -> <<"\\", "u", "2", "0", "0", "0">>
      [] c = "U+2001" -> <<"\\", "u", "2", "0", "0", "1">>
      [] c = "U+2002" -> <<"\\", "u", "2", "0", "0", "2">>
      [] c = "U+2003" -> <<"\\", "u", "2", "0", "0", "3">>
      [] c = "U+2004" -> <<"\\", "u", "2", "0", "0", "4">>
      [] c = "U+2005" -> <<"\\", "u", "2", "0", "0", "5">>
      [] c = "U+2006" -> <<"\\", "u", "2", "0", "0", "6">>
      [] c = "U+2007" -> <<"\\", "u", "2", "0", "0", "7">>
      [] c = "U+2008" -> <<"\\", "u", "2", "0", "0", "8">>
      [] c = "U+2009" -> <<"\\", "u", "2", "0", "0", "9">>
      [] c = "U+200A" -> <<"\\", "u", "2", "0", "0", "a">>
      [] c = "U+2028" -> <<"\\", "u", "2", "0", "2", "8">>
      [] c = "U+2029" -> <<"\\", "u", "2", "0", "2", "9">>
      [] c = "U+202F" -> <<"\\", "u", "2", "0", "2", "f">>
      [] c = "U+205F" -> <<"\\", "u", "2", "0", "5", "f">>
      [] c = "U+3000" -> <<"\\", "u", "3", "0", "0", "0">>

RECURSIVE ReprBody(_, _)
ReprBody(s, quote) ==
    IF s = <<>> THEN <<>> ELSE ReprChar(Head(s), quote) \o ReprBody(Tail(s), quote)

\* repr() of a str: between double quotes when the text has a single quote
\* and no double quote, between single quotes otherwise
Repr(s) ==
    LET chars == {s[i] : i \in DOMAIN s}
        quote == IF "'" \in chars /\ "\"" \notin chars THEN "\"" ELSE "'" IN
    <<quote>> \o ReprBody(s, quote) \o <<quote>>

\* str(KeyError(key)): the repr of the key
KeyErrorStr(key) == Repr(key)

\* BARCODE_FORMATS[request.format]
RegistryLookup(format) ==
    IF format \in BARCODE_FORMATS THEN Returned(format)
    ELSE Raised(KeyErrorStr(format))

LookupCall(format) ==
    [op |-> "lookup", key |-> format, found |-> format \in BARCODE_FORMATS]

\* the options dictionary handed to code.write
BarcodeOptions(request) ==
    [module_width  |-> request.width,
     module_height |-> request.height,
     quiet_zone    |-> request.quiet_zone,
     font_size     |-> request.font_size,
     text_distance |-> request.text_distance,
     background    |-> request.background_color,
     foreground    |-> request.foreground_color]

\* barcode_class(request.data, writer=writer) and code.write(buffer, options)
EncodeCall(request, enc) ==
    [op |-> "encode", lib |-> "barcode", format |-> request.format,
     data |-> request.data, options |-> BarcodeOptions(request),
     outcome |-> enc]

\* create_barcode_image calling the encoder a second time when it failed
create_barcode_image_Retry(request, enc) ==
    LET cls == RegistryLookup(request.format) IN
    IF cls.raised
    THEN [raised |-> TRUE,
          exc |-> HTTPException(400, <<"Failed to generate barcode: ">> \o cls.msg),
          calls |-> <<LookupCall(request.format)>>]
    ELSE IF enc.raised
    THEN [raised |-> TRUE,
          exc |-> HTTPException(400, <<"Failed to generate barcode: ">> \o enc.msg),
          calls |-> <<LookupCall(request.format), EncodeCall(request, enc),
                      EncodeCall(request, enc)>>]
    ELSE [raised |-> FALSE,
          value |-> enc.value,
          calls |-> <<LookupCall(request.format), EncodeCall(request, enc)>>]

\* create_barcode_image: enc is what the encoder does when it is called.
\* The result is the buffer returned or the HTTPException raised, with the
\* calls made.
create_barcode_image(request, enc) ==
    LET cls == RegistryLookup(request.format) IN
    IF cls.raised
    THEN [raised |-> TRUE,
          exc |-> HTTPException(400, <<"Failed to generate barcode: ">> \o cls.msg),
          calls |-> <<LookupCall(request.format)>>]
    ELSE IF enc.raised
    THEN [raised |-> TRUE,
          exc |-> HTTPException(400, <<"Failed to generate barcode: ">> \o enc.msg),
          calls |-> <<LookupCall(request.format), EncodeCall(request, enc)>>]
    ELSE [raised |-> FALSE,
          value |-> enc.value,
          calls |-> <<LookupCall(request.format), EncodeCall(request, enc)>>]

\* the except clauses of an endpoint: an HTTPException is re-raised as it
\* is, any other exception becomes a 500 carrying its text
InternalError(msg) == HTTPException(500, <<"Internal server error: ">> \o msg)

\* the characters of the texts modelled that lie above U+00FF
BeyondLatin1 ==
    {"U+1680", "U+2000", "U+2001", "U+2002", "U+2003", "U+2004",
     "U+2005", "U+2006", "U+2007", "U+2008", "U+2009", "U+200A",
     "U+2028", "U+2029", "U+202F", "U+205F", "U+3000"}

\* str(UnicodeEncodeError) of value.encode("latin-1"): the characters from
\* position first to position last (counted from 1 here, from 0 in the
\* message) are the first run that Latin-1 does not have
UnicodeEncodeErrorStr(value, first, last) ==
    IF first = last
    THEN <<"'latin-1' codec can't encode character '">> \o ReprChar(value[first], "'")
         \o <<"' in position ">> \o NatToStr(first - 1)
         \o <<": ordinal not in range(256)">>
    ELSE <<"'latin-1' codec can't encode characters in position ">>
         \o NatToStr(first - 1) \o <<"-">> \o NatToStr(last - 1)
         \o <<": ordinal not in range(256)">>

\* value.encode("latin-1"), as Starlette does to the value of a header
Latin1Encode(value) ==
    LET InLatin1(c) ==
            CASE c \in PrintableAscii \cup (Whitespace \ BeyondLatin1) -> TRUE
              [] c \in BeyondLatin1 -> FALSE
        bad == {i \in DOMAIN value : ~InLatin1(value[i])} IN
    IF bad = {} THEN Returned(value)
    ELSE LET first == CHOOSE i \in bad : \A j \in bad : i <= j
             last == CHOOSE i \in bad :
                         /\ \A j \in first..i : j \in bad
                         /\ i + 1 \notin bad
         IN Raised(UnicodeEncodeErrorStr(value, first, last))

ContentDispositionPrefix ==
    <<"a", "t", "t", "a", "c", "h", "m", "e", "n", "t", ";", " ", "f", "i", "l", "e",
      "n", "a", "m", "e", "=", "b", "a", "r", "c", "o", "d", "e", "_">>

\* StreamingResponse(io.BytesIO(...), media_type="image/png", headers=...):
\* the response returned, or the exception of the header's encoding
BarcodeStreamingResponse(request, buffer) ==
    LET header == Latin1Encode(ContentDispositionPrefix \o request.format \o <<"_">>
                               \o request.data \o <<".", "p", "n", "g">>) IN
    IF header.raised THEN header
    ELSE Returned([status |-> 200, kind |-> "stream", media_type |-> "image/png",
                   content |-> buffer,
                   content_disposition |-> header.value])

GenerationResponse(format, data, buffer, message) ==
    [status |-> 200, kind |-> "json",
     success |-> TRUE, format |-> format, data |-> data,
     image_base64 |-> b64encode(buffer), message |-> message]

\* create_barcode without "except HTTPException: raise": the helper's 400
\* falls into "except Exception" and leaves as a 500
create_barcode_NoReraise(request, enc, fault) ==
    LET img == create_barcode_image(request, enc) IN
    IF img.raised
    THEN [resp |-> ErrorResponse(InternalError(img.exc.detail)), calls |-> img.calls]
    ELSE IF fault.raised
    THEN [resp |-> ErrorResponse(InternalError(fault.msg)), calls |-> img.calls]
    ELSE IF request.return_format = T_image
    THEN LET sent == BarcodeStreamingResponse(request, img.value) IN
         [resp |-> IF sent.raised THEN ErrorResponse(InternalError(sent.msg))
                   ELSE sent.value,
          calls |-> img.calls]
    ELSE [resp |-> GenerationResponse(request.format, request.data, img.value,
                                      "Barcode generated successfully"),
          calls |-> img.calls]

\* create_barcode: fault is what building the response does (nothing, or
\* an exception that is not an HTTPException)
create_barcode(request, enc, fault) ==
    LET img == create_barcode_image(request, enc) IN
    IF img.raised
    THEN [resp |-> ErrorResponse(img.exc), calls |-> img.calls]
    ELSE IF fault.raised
    THEN [resp |-> ErrorResponse(InternalError(fault.msg)), calls |-> img.calls]
    ELSE IF request.return_format = T_image
    THEN LET sent == BarcodeStreamingResponse(request, img.value) IN
         [resp |-> IF sent.raised THEN ErrorResponse(InternalError(sent.msg))
                   ELSE sent.value,
          calls |-> img.calls]
    ELSE [resp |-> GenerationResponse(request.format, request.data, img.value,
                                      "Barcode generated successfully"),
          calls |-> img.calls]

\* POST /create-barcode with a JSON body: the parsing of the body, schema
\* validation, then the handler
PostCreateBarcode(body, enc, fault) ==
    LET errors == BarcodeErrors(body) IN
    IF ~BodyParses(body)
    THEN [resp |-> ErrorResponse(BodyParseError), calls |-> <<>>]
    ELSE IF errors # <<>>
    THEN [resp |-> ValidationResponse(errors), calls |-> <<>>]
    ELSE create_barcode(BarcodeGenerationRequest(body), enc, fault)

----------------------------------------------------------------------------
(* The QR code request schema, create_qr_code_image and /create-qr-code *)

ErrorCorrectionLiteral == {T_L, T_M, T_Q, T_H}

\* the bounds of the numeric fields of QRCodeGenerationRequest
QrNumberBounds ==
    [version  |-> <<[op |-> "ge", n |-> 1], [op |-> "le", n |-> 40]>>,
     box_size |-> <<[op |-> "ge", n |-> 1]>>,
     border   |-> <<[op |-> "ge", n |-> 0]>>]

QrDefaults ==
    [return_format    |-> Str(T_base64),
     version          |-> Num(1),
     error_correction |-> Str(T_M),
     box_size         |-> Num(10),
     border           |-> Num(4),
     fill_color       |-> Str(T_black),
     back_color       |-> Str(T_white)]

QrErrors(body) ==
    RequiredStr(body, "data", 1)
    \o LiteralField(body, "return_format", ReturnFormatLiteral, FALSE)
    \o OptionalInt(body, "version", QrNumberBounds.version)
    \o LiteralField(body, "error_correction", ErrorCorrectionLiteral, FALSE)
    \o OptionalInt(body, "box_size", QrNumberBounds.box_size)
    \o OptionalInt(body, "border", QrNumberBounds.border)
    \o OptionalStr(body, "fill_color")
    \o OptionalStr(body, "back_color")

\* the QRCodeGenerationRequest built from a body that has no errors
QRCodeGenerationRequest(body) ==
    [data             |-> body.data.s,
     return_format    |-> FieldOr(body, "return_format", QrDefaults.return_format).s,
     version          |-> IntField(body, "version", QrDefaults.version),
     error_correction |-> FieldOr(body, "error_correction", QrDefaults.error_correction).s,
     box_size         |-> IntField(body, "box_size", QrDefaults.box_size),
     border           |-> IntField(body, "border", QrDefaults.border),
     fill_color       |-> FieldOr(body, "fill_color", QrDefaults.fill_color),
     back_color       |-> FieldOr(body, "back_color", QrDefaults.back_color)]

\* qrcode.QRCode(...), add_data, make, make_image and img.save
QrEncodeCall(request, enc) ==
    [op |-> "encode", lib |-> "qrcode", format |-> T_qrcode,
     data |-> request.data, outcome |-> enc,
     options |-> [version          |-> request.version,
                  error_correction |-> request.error_correction,
                  box_size         |-> request.box_size,
                  border           |-> request.border,
                  fill_color       |-> request.fill_color,
                  back_color       |-> request.back_color]]

create_qr_code_image(request, enc) ==
    IF enc.raised
    THEN [raised |-> TRUE,
          exc |-> HTTPException(400, <<"Failed to generate QR code: ">> \o enc.msg),
          calls |-> <<QrEncodeCall(request, enc)>>]
    ELSE [raised |-> FALSE,
          value |-> enc.value,
          calls |-> <<QrEncodeCall(request, enc)>>]

\* a 64-bit signed number in decimal limbs: sign * (hi * 10^14 + mid * 10^7 + lo)
Int64(sign, hi, mid, lo) == [sign |-> sign, hi |-> hi, mid |-> mid, lo |-> lo]

\* the seven digits of a limb below the leading one
Pad7(n) ==
    LET d == NatToStr(n) IN
    [i \in 1..(7 - Len(d)) |-> "0"] \o d

\* str() of such a number, as the f-string formats it
Int64ToStr(v) ==
    (IF v.sign < 0 THEN <<"-">> ELSE <<>>)
    \o (IF v.hi > 0 THEN NatToStr(v.hi) \o Pad7(v.mid) \o Pad7(v.lo)
        ELSE IF v.mid > 0 THEN NatToStr(v.mid) \o Pad7(v.lo)
        ELSE NatToStr(v.lo))

\* The builtin hash() of a str: SipHash-1-3 of the text under the key the
\* process derived from PYTHONHASHSEED when it started (64-bit build).
\* The table holds the builtin's values for the texts of the inputs in a
\* process started with PYTHONHASHSEED=0 and in one started with
\* PYTHONHASHSEED=1.
hash(seed, s) ==
    CASE seed = 0 /\ s = <<>> -> Int64(1, 0, 0, 0)
      [] seed = 0 /\ s = <<" ">> -> Int64(1, 74675, 877103, 7518848)
      [] seed = 0 /\ s = <<"1">> -> Int64(-1, 68638, 5801567, 2933803)
      [] seed = 0 /\ s = <<" ", " ">> -> Int64(1, 80297, 4949660, 8278878)
      [] seed = 0 /\ s = <<" ", "1">> -> Int64(-1, 16326, 9739858, 9142617)
      [] seed = 0 /\ s = <<"1", " ">> -> Int64(1, 60401, 5663951, 953148)
      [] seed = 0 /\ s = <<"1", "1">> -> Int64(1, 91621, 2225804, 804259)
      [] seed = 0 /\ s = <<" ", " ", " ">> -> Int64(-1, 43056, 4545386, 8548010)
      [] seed = 0 /\ s = <<" ", " ", "1">> -> Int64(-1, 76705, 7417459, 616028)
      [] seed = 0 /\ s = <<" ", "1", " ">> -> Int64(1, 71318, 6142406, 4921109)
      [] seed = 0 /\ s = <<" ", "1", "1">> -> Int64(-1, 62287, 8976413, 9460385)
      [] seed = 0 /\ s = <<"1", " ", " ">> -> Int64(1, 55257, 9684771, 4852261)
      [] seed = 0 /\ s = <<"1", " ", "1">> -> Int64(1, 6076, 1204892, 7851135)
      [] seed = 0 /\ s = <<"1", "1", " ">> -> Int64(1, 90339, 9850093, 2217602)
      [] seed = 0 /\ s = <<"1", "1", "1">> -> Int64(-1, 39169, 8643839, 7978325)
      [] seed = 0 /\ s = <<"T", "E", "S", "T", "1", "2", "3">> -> Int64(1, 59353, 1058130, 9745038)
      [] seed = 0 /\ s = <<"1", "2", "3", "4", "5">> -> Int64(1, 23473, 6618695, 309369)
      [] seed = 0 /\ s = <<"1", "2", "3", "4", "5", "6", "7", "8", "9", "0", "1", "2">> -> Int64(1, 84317, 8014586, 8695363)
      [] seed = 1 /\ s = <<>> -> Int64(1, 0, 0, 0)
      [] seed = 1 /\ s = <<" ">> -> Int64(1, 4985, 9260570, 8520532)
      [] seed = 1 /\ s = <<"1">> -> Int64(-1, 35090, 5310488, 3717537)
      [] seed = 1 /\ s = <<" ", " ">> -> Int64(1, 90663, 4215126, 3784794)
      [] seed = 1 /\ s = <<" ", "1">> -> Int64(-1, 66829, 1546666, 4486777)
      [] seed = 1 /\ s = <<"1", " ">> -> Int64(-1, 65860, 9655972, 7590555)
      [] seed = 1 /\ s = <<"1", "1">> -> Int64(-1, 30606, 9160118, 4312854)
      [] seed = 1 /\ s = <<" ", " ", " ">> -> Int64(1, 32931, 3055838, 8961786)
      [] seed = 1 /\ s = <<" ", " ", "1">> -> Int64(-1, 41453, 7747891, 2624385)
      [] seed = 1 /\ s = <<" ", "1", " ">> -> Int64(1, 44230, 4032908, 8123009)
      [] seed = 1 /\ s = <<" ", "1", "1">> -> Int64(1, 11460, 8316846, 332925)
      [] seed = 1 /\ s = <<"1", " ", " ">> -> Int64(-1, 60692, 3875455, 2919757)
      [] seed = 1 /\ s = <<"1", " ", "1">> -> Int64(-1, 50204, 7948700, 4494974)
      [] seed = 1 /\ s = <<"1", "1", " ">> -> Int64(-1, 67513, 2936533, 453042)
      [] seed = 1 /\ s = <<"1", "1", "1">> -> Int64(1, 28421, 8937942, 8093789)
      [] seed = 1 /\ s = <<"T", "E", "S", "T", "1", "2", "3">> -> Int64(1, 28045, 1152576, 2449956)
      [] seed = 1 /\ s = <<"1", "2", "3", "4", "5">> -> Int64(1, 42522, 971791, 2509601)
      [] seed = 1 /\ s = <<"1", "2", "3", "4", "5", "6", "7", "8", "9", "0", "1", "2">> -> Int64(1, 9427, 8772216, 8464544)

QrStreamingResponse(request, buffer, seed) ==
    [status |-> 200, kind |-> "stream", media_type |-> "image/png",
     content |-> buffer,
     content_disposition |->
        <<"attachment; filename=qrcode_">>
        \o Int64ToStr(hash(seed, request.data)) \o <<".png">>]

\* create_qr_code, in a process whose hash key is seed
create_qr_code(request, enc, fault, seed) ==
    LET img == create_qr_code_image(request, enc) IN
    IF img.raised
    THEN [resp |-> ErrorResponse(img.exc), calls |-> img.calls]
    ELSE IF fault.raised
    THEN [resp |-> ErrorResponse(InternalError(fault.msg)), calls |-> img.calls]
    ELSE IF request.return_format = T_image
    THEN [resp |-> QrStreamingResponse(request, img.value, seed), calls |-> img.calls]
    ELSE [resp |-> GenerationResponse(T_qrcode, request.data, img.value,
                                      "QR code generated successfully"),
          calls |-> img.calls]

\* POST /create-qr-code with a JSON body
PostCreateQrCode(body, enc, fault, seed) ==
    LET errors == QrErrors(body) IN
    IF ~BodyParses(body)
    THEN [resp |-> ErrorResponse(BodyParseError), calls |-> <<>>]
    ELSE IF errors # <<>>
    THEN [resp |-> ValidationResponse(errors), calls |-> <<>>]
    ELSE create_qr_code(QRCodeGenerationRequest(body), enc, fault, seed)

----------------------------------------------------------------------------
(* bytes.decode('utf-8'): the text as a sequence of code points *)

IsCont(b) == b >= 128 /\ b <= 191

\* the number of bytes of the character that starts bytes; 0: ill-formed
Utf8Width(bytes) ==
    LET b == bytes[1]
        n == Len(bytes) IN
    IF b < 128 THEN 1
    ELSE IF b >= 194 /\ b <= 223
    THEN IF n >= 2 /\ IsCont(bytes[2]) THEN 2 ELSE 0
    ELSE IF b >= 224 /\ b <= 239
    THEN IF /\ n >= 3 /\ IsCont(bytes[2]) /\ IsCont(bytes[3])
            /\ (b = 224 => bytes[2] >= 160)
            /\ (b = 237 => bytes[2] <= 159)
         THEN 3 ELSE 0
    ELSE IF b >= 240 /\ b <= 244
    THEN IF /\ n >= 4 /\ IsCont(bytes[2]) /\ IsCont(bytes[3]) /\ IsCont(bytes[4])
            /\ (b = 240 => bytes[2] >= 144)
            /\ (b = 244 => bytes[2] <= 143)
         THEN 4 ELSE 0
    ELSE 0

Utf8CodePoint(bytes, w) ==
    CASE w = 1 -> bytes[1]
      [] w = 2 -> (bytes[1] - 192) * 64 + (bytes[2] - 128)
      [] w = 3 -> (bytes[1] - 224) * 4096 + (bytes[2] - 128) * 64 + (bytes[3] - 128)
      [] w = 4 -> (bytes[1] - 240) * 262144 + (bytes[2] - 128) * 4096
                  + (bytes[3] - 128) * 64 + (bytes[4] - 128)

\* why the character that starts bytes is ill-formed, and how many bytes
\* the decoder blames (for bytes with Utf8Width(bytes) = 0)
Utf8Fault(bytes) ==
    LET b == bytes[1]
        n == Len(bytes)
        need == IF b < 224 THEN 2 ELSE IF b < 240 THEN 3 ELSE 4 IN
    IF b < 194 \/ b > 244
    THEN [reason |-> "invalid start byte", len |-> 1]
    ELSE IF n < 2
    THEN [reason |-> "unexpected end of data", len |-> n]
    ELSE IF \/ ~IsCont(bytes[2])
            \/ (b = 224 /\ bytes[2] < 160) \/ (b = 237 /\ bytes[2] >= 160)
            \/ (b = 240 /\ bytes[2] < 144) \/ (b = 244 /\ bytes[2] >= 144)
    THEN [reason |-> "invalid continuation byte", len |-> 1]
    ELSE IF need >= 3 /\ n < 3
    THEN [reason |-> "unexpected end of data", len |-> n]
    ELSE IF need >= 3 /\ ~IsCont(bytes[3])
    THEN [reason |-> "invalid continuation byte", len |-> 2]
    ELSE IF need = 4 /\ n < 4
    THEN [reason |-> "unexpected end of data", len |-> n]
    ELSE [reason |-> "invalid continuation byte", len |-> 3]

HexDigit(d) ==
    <<"0", "1", "2", "3", "4", "5", "6", "7",
      "8", "9", "a", "b", "c", "d", "e", "f">>[d + 1]

\* str() of the UnicodeDecodeError for a fault at the 0-based position pos
\* whose first byte is b
UnicodeDecodeErrorStr(b, pos, fault) ==
    IF fault.len = 1
    THEN <<"'utf-8' codec can't decode byte 0x", HexDigit(b \div 16), HexDigit(b % 16),
           " in position ">> \o NatToStr(pos) \o <<": ", fault.reason>>
    ELSE <<"'utf-8' codec can't decode bytes in position ">> \o NatToStr(pos)
         \o <<"-">> \o NatToStr(pos + fault.len - 1) \o <<": ", fault.reason>>

\* the decoding of bytes from its i-th byte on
RECURSIVE DecodeFrom(_, _)
DecodeFrom(bytes, i) ==
    IF i > Len(bytes) THEN Returned(<<>>)
    ELSE LET tail == SubSeq(bytes, i, Len(bytes))
             w == Utf8Width(tail) IN
         IF w = 0
         THEN Raised(UnicodeDecodeErrorStr(bytes[i], i - 1, Utf8Fault(tail)))
         ELSE LET rest == DecodeFrom(bytes, i + w) IN
              IF rest.raised THEN rest
              ELSE Returned(<<Utf8CodePoint(tail, w)>> \o rest.value)

decode_utf8(bytes) == DecodeFrom(bytes, 1)

----------------------------------------------------------------------------
(* scan_codes_from_image and the /scan-image endpoint *)

\* [[point.x, point.y] for point in obj.polygon]
RECURSIVE PolygonList(_)
PolygonList(points) ==
    IF points = <<>> THEN <<>>
    ELSE <<<<Head(points).x, Head(points).y>>>> \o PolygonList(Tail(points))

\* getattr(obj, 'quality', None)
QualityOf(obj) == IF Has(obj, "quality") THEN Num(obj.quality) ELSE Null

ScanResult(data, type, quality, polygon) ==
    [data |-> data, type |-> type, quality |-> quality, polygon |-> polygon]

\* the loop inserting each result at the front of the list
RECURSIVE ScanLoop_Prepend(_, _)
ScanLoop_Prepend(objs, acc) ==
    IF objs = <<>> THEN Returned(acc)
    ELSE LET obj == Head(objs)
             text == decode_utf8(obj.data) IN
         IF text.raised THEN Raised(text.msg)
         ELSE ScanLoop_Prepend(Tail(objs),
                  <<ScanResult(text.value, obj.type,
                               QualityOf(obj), PolygonList(obj.polygon))>> \o acc)

\* the loop leaving out a detection whose payload is not UTF-8
RECURSIVE ScanLoop_SkipUndecodable(_, _)
ScanLoop_SkipUndecodable(objs, acc) ==
    IF objs = <<>> THEN Returned(acc)
    ELSE LET obj == Head(objs)
             text == decode_utf8(obj.data) IN
         IF text.raised THEN ScanLoop_SkipUndecodable(Tail(objs), acc)
         ELSE ScanLoop_SkipUndecodable(Tail(objs),
                  Append(acc, ScanResult(text.value, obj.type,
                                         QualityOf(obj), PolygonList(obj.polygon))))

\* the for loop over decoded_objects: the results so far are acc
RECURSIVE ScanLoop(_, _)
ScanLoop(objs, acc) ==
    IF objs = <<>> THEN Returned(acc)
    ELSE LET obj == Head(objs)
             text == decode_utf8(obj.data) IN
         IF text.raised THEN Raised(text.msg)
         ELSE ScanLoop(Tail(objs),
                       Append(acc, ScanResult(text.value, obj.type,
                                              QualityOf(obj), PolygonList(obj.polygon))))

ImdecodeCall(image_data, out) == [op |-> "imdecode", data |-> image_data, outcome |-> out]
CvtColorCall == [op |-> "cvtColor"]
DetectCall(out) == [op |-> "detect", lib |-> "pyzbar", outcome |-> out]

ScanFailed(msg) == HTTPException(400, <<"Failed to scan image: ">> \o msg)

\* scan_codes_from_image without the "image is None" check: the detector
\* is handed whatever imdecode returned
scan_codes_from_image_NoNoneCheck(image_data, img, det) ==
    IF img.raised
    THEN [raised |-> TRUE, exc |-> ScanFailed(img.msg),
          calls |-> <<ImdecodeCall(image_data, img)>>]
    ELSE LET made == <<ImdecodeCall(image_data, img), CvtColorCall, DetectCall(det)>> IN
         IF det.raised
         THEN [raised |-> TRUE, exc |-> ScanFailed(det.msg), calls |-> made]
         ELSE LET results == ScanLoop(det.value, <<>>) IN
              IF results.raised
              THEN [raised |-> TRUE, exc |-> ScanFailed(results.msg), calls |-> made]
              ELSE [raised |-> FALSE, value |-> results.value, calls |-> made]

\* scan_codes_from_image: img is what cv2.imdecode does (it returns
\* "image" or "None", or raises), det is what pyzbar.decode does
scan_codes_from_image(image_data, img, det) ==
    IF img.raised
    THEN [raised |-> TRUE, exc |-> ScanFailed(img.msg),
          calls |-> <<ImdecodeCall(image_data, img)>>]
    ELSE IF img.value = "None"
    THEN [raised |-> TRUE, exc |-> ScanFailed(<<"Invalid image format">>),
          calls |-> <<ImdecodeCall(image_data, img)>>]
    ELSE LET made == <<ImdecodeCall(image_data, img), CvtColorCall, DetectCall(det)>> IN
         IF det.raised
         THEN [raised |-> TRUE, exc |-> ScanFailed(det.msg), calls |-> made]
         ELSE LET results == ScanLoop(det.value, <<>>) IN
              IF results.raised
              THEN [raised |-> TRUE, exc |-> ScanFailed(results.msg), calls |-> made]
              ELSE [raised |-> FALSE, value |-> results.value, calls |-> made]

\* not image.content_type or not image.content_type.startswith('image/')
NotAnImage(content_type) ==
    \/ IsNull(content_type)
    \/ content_type.s = <<>>
    \/ ~StartsWith(content_type.s, <<"i", "m", "a", "g", "e", "/">>)

ReadCall(out) == [op |-> "read", outcome |-> out]

\* The upload is a SpooledTemporaryFile of max_size 1 MiB: a larger one has
\* been rolled to disk, and UploadFile.read() reads it in the thread pool,
\* so that "await image.read()" gives the event loop to other requests.
\* A smaller one is read from memory without suspending.
RolledToDisk(image) == image.size > 1024 * 1024

ScanResponse(results) ==
    [status |-> 200, kind |-> "scan",
     success |-> TRUE, codes_found |-> Len(results), results |-> results,
     message |-> <<"Scan completed. Found ">> \o IntToStr(Len(results))
                 \o <<" code(s).">>]

\* scan_image: read is what image.read() does
scan_image(image, read, img, det) ==
    IF NotAnImage(image.content_type)
    THEN [resp |-> ErrorResponse(
                     HTTPException(400, <<"File must be an image (JPEG, PNG, etc.)">>)),
          calls |-> <<>>]
    ELSE IF read.raised
    THEN [resp |-> ErrorResponse(InternalError(read.msg)),
          calls |-> <<ReadCall(read)>>]
    ELSE LET scan == scan_codes_from_image(read.value, img, det) IN
         IF scan.raised
         THEN [resp |-> ErrorResponse(scan.exc),
               calls |-> <<ReadCall(read)>> \o scan.calls]
         ELSE [resp |-> ScanResponse(scan.value),
               calls |-> <<ReadCall(read)>> \o scan.calls]

----------------------------------------------------------------------------
(* The inputs: request bodies, uploads, and what the environment does *)

InputAlphabet == {" ", "1"}

\* every text over the input alphabet of at most n characters
TextsUpTo(n) == UNION {[1..k -> InputAlphabet] : k \in 0..n}

TEST123 == <<"T", "E", "S", "T", "1", "2", "3">>
Digits5 == <<"1", "2", "3", "4", "5">>
Digits12 == <<"1", "2", "3", "4", "5", "6", "7", "8", "9", "0", "1", "2">>

DataInputs == TextsUpTo(MaxDataLen) \cup {Digits5}

\* data that begins with a vertical tab, and data that is one no-break space
PaddedData == {<<"U+000B", "1">>, <<"U+00A0">>}

\* a field of a base body replaced (or added), or dropped
SetField(f, j) == [field |-> f, drop |-> FALSE, value |-> j]
DropField(f) == [field |-> f, drop |-> TRUE]

Override(body, o) ==
    IF o.drop THEN Without(body, o.field) ELSE With(body, o.field, o.value)

\* the base bodies and the bodies that differ from one in one field
Bodies(base, overrides) ==
    base \cup {Override(b, o) : b \in base, o \in overrides}

\* the bodies of test_generate_barcode_code128 and test_generate_barcode_ean13
Code128Body == [data |-> Str(TEST123), format |-> Str(T_code128)]
Ean13Body == [data |-> Str(Digits12), format |-> Str(T_ean13)]

FormatInputs ==
    BarcodeFormatLiteral \cup BARCODE_FORMATS \cup {T_qrcode, T_invalid_format}

BarcodeOverrides ==
    {SetField("data", Str(d)) : d \in DataInputs \cup PaddedData}
    \cup {DropField("data")}
    \cup {DropField("format")}
    \cup {SetField("format", Str(f)) : f \in FormatInputs}
    \cup {SetField("return_format", Str(f)) : f \in {T_image, T_pdf}}
    \cup {SetField("width", j) :
             j \in {Num(-10), Num(0), Num(30), Null, Str(<<"3">>), Str(<<"a", "b", "c">>),
                    BigNum(1, 400), BigNum(1, 4301)}}
    \cup {SetField("height", j) : j \in {Num(-10), Num(0)}}
    \cup {SetField("quiet_zone", j) : j \in {Num(-10), Num(0)}}
    \cup {SetField("text_distance", j) : j \in {Num(-10), Num(0)}}
    \cup {SetField("font_size", j) :
             j \in {Num(0), Num(1), Num(100), Num(101), Frac(15), Null,
                    Str(<<"5", "0">>), BigNum(1, 12)}}

\* the digits body with another format, or with the five digits of
\* test_invalid_ean13_length
Ean13Overrides ==
    {SetField("data", Str(Digits5))}
    \cup {SetField("format", Str(f)) : f \in FormatInputs}

\* a download asked for data that holds a character Latin-1 does not have
WideDataBody ==
    [data |-> Str(<<"1", "U+2000", "1">>), format |-> Str(T_code128),
     return_format |-> Str(T_image)]

BarcodeBodies ==
    Bodies({Code128Body}, BarcodeOverrides) \cup Bodies({Ean13Body}, Ean13Overrides)
    \cup {WideDataBody}

QrBaseBodies == {[data |-> Str(TEST123)]}

QrOverrides ==
    {SetField("data", Str(d)) : d \in DataInputs}
    \cup {DropField("data")}
    \cup {SetField("return_format", Str(f)) : f \in {T_image, T_pdf}}
    \cup {SetField("version", j) : j \in {Num(0), Num(40), Num(41)}}
    \cup {SetField("error_correction", Str(f)) : f \in {T_H, T_X}}
    \cup {SetField("box_size", j) : j \in {Num(0), Num(1)}}
    \cup {SetField("border", j) : j \in {Num(-1), Num(0)}}

\* a QR body may name return_format and one more field: the download is
\* asked for by return_format
QrBodies ==
    LET bodies == Bodies(QrBaseBodies, QrOverrides) IN
    bodies \cup {With(b, "return_format", Str(T_image)) : b \in bodies}

\* the first bytes of a PNG file
PngSignature == <<137, 80, 78, 71, 13, 10, 26, 10>>

\* str(e) of the exceptions the libraries and the runtime raise
ExcMessages == {<<"EAN must have 12 digits">>, <<"out of memory">>}

\* what an encoder does: it returns the PNG bytes or raises
EncoderOutcomes == {Returned(PngSignature)} \cup {Raised(m) : m \in ExcMessages}

\* what building the response does: nothing, or an unanticipated exception
NoFault == [raised |-> FALSE]
Faults == {NoFault} \cup {Raised(m) : m \in ExcMessages}

\* the environment decides a call only when the call is made
NotCalled == [raised |-> FALSE]
Asked(made, outcomes) == IF made THEN outcomes ELSE {NotCalled}

\* the uploads: the declared content type and the bytes
T_image_png == <<"i", "m", "a", "g", "e", "/", "p", "n", "g">>
T_text_plain == <<"t", "e", "x", "t", "/", "p", "l", "a", "i", "n">>

\* the files uploaded: an empty one, one of eight bytes, and one of more
\* than 1 MiB
Files ==
    {[bytes |-> <<>>, size |-> 0],
     [bytes |-> PngSignature, size |-> 8],
     [bytes |-> PngSignature, size |-> 1024 * 1024 + 9]}

Uploads ==
    {[content_type |-> c, bytes |-> f.bytes, size |-> f.size] :
        c \in {Null, Str(<<>>), Str(T_text_plain), Str(T_image_png)}, f \in Files}

ReadOutcomes(image) == {Returned(image.bytes)} \cup {Raised(m) : m \in ExcMessages}

ImdecodeOutcomes == {Returned("image"), Returned("None"), Raised(<<"cv2.error">>)}

\* the payloads the detector reports: "A", "é" and two ill-formed ones
Payloads == {<<65>>, <<195, 169>>, <<255>>, <<195>>}

Square == <<[x |-> 0, y |-> 0], [x |-> 9, y |-> 0], [x |-> 9, y |-> 9], [x |-> 0, y |-> 9]>>

Detections ==
    {[data |-> p, type |-> "QRCODE", polygon |-> Square, quality |-> 1] : p \in Payloads}
    \cup {[data |-> <<65>>, type |-> "CODE128", polygon |-> Square]}

DetectionSeqs == UNION {[1..k -> Detections] : k \in 0..MaxDetections}

DetectOutcomes ==
    {Returned(ds) : ds \in DetectionSeqs} \cup {Raised(<<"zbar error">>)}

\* the PYTHONHASHSEED of a process
HashSeeds == {0, 1}

----------------------------------------------------------------------------
(* The service: one action per endpoint, and the start of a new process.
   req, resp and calls are the last exchange completed, as the client and
   the libraries saw it; a restart changes none of them.  The handlers run
   on one event loop: create_barcode and create_qr_code never await, and
   scan_image awaits image.read() only, so a handler is one step, except a
   scan whose read suspends, which is two with other requests between. *)

Init ==
    /\ req = [endpoint |-> "none"]
    /\ resp = [status |-> 0, kind |-> "none"]
    /\ calls = <<>>
    /\ hashSeed \in HashSeeds
    /\ suspended = <<>>

CreateBarcode ==
    \E body \in BarcodeBodies :
    \E enc \in Asked(BodyParses(body) /\ BarcodeErrors(body) = <<>>, EncoderOutcomes) :
    \E fault \in Asked(BodyParses(body) /\ BarcodeErrors(body) = <<>> /\ ~enc.raised,
                       Faults) :
        LET out == PostCreateBarcode(body, enc, fault) IN
        /\ req' = [endpoint |-> "/create-barcode", body |-> body]
        /\ resp' = out.resp
        /\ calls' = out.calls
        /\ UNCHANGED <<hashSeed, suspended>>

CreateQrCode ==
    \E body \in QrBodies :
    \E enc \in Asked(BodyParses(body) /\ QrErrors(body) = <<>>, EncoderOutcomes) :
    \E fault \in Asked(BodyParses(body) /\ QrErrors(body) = <<>> /\ ~enc.raised, Faults) :
        LET out == PostCreateQrCode(body, enc, fault, hashSeed) IN
        /\ req' = [endpoint |-> "/create-qr-code", body |-> body]
        /\ resp' = out.resp
        /\ calls' = out.calls
        /\ UNCHANGED <<hashSeed, suspended>>

\* the whole of scan_image, for an upload that is refused for its content
\* type or whose read does not suspend
ScanImage ==
    \E image \in {u \in Uploads : NotAnImage(u.content_type) \/ ~RolledToDisk(u)} :
    \E read \in Asked(~NotAnImage(image.content_type), ReadOutcomes(image)) :
    \E img \in Asked(~NotAnImage(image.content_type) /\ ~read.raised, ImdecodeOutcomes) :
    \E det \in Asked(~NotAnImage(image.content_type) /\ ~read.raised /\ ~img.raised,
                     DetectOutcomes) :
        LET out == scan_image(image, read, img, det) IN
        /\ req' = [endpoint |-> "/scan-image", image |-> image]
        /\ resp' = out.resp
        /\ calls' = out.calls
        /\ UNCHANGED <<hashSeed, suspended>>

\* scan_image up to "await image.read()", for an upload rolled to disk:
\* the content type is accepted, the read begins and the handler waits
ScanImageAwaitRead ==
    \E image \in {u \in Uploads : ~NotAnImage(u.content_type) /\ RolledToDisk(u)} :
        /\ Len(suspended) < MaxSuspended
        /\ suspended' = Append(suspended, image)
        /\ UNCHANGED <<req, resp, calls, hashSeed>>

\* scan_image from the return of image.read() on, for a waiting scan
ScanImageResume ==
    \E k \in DOMAIN suspended :
    \E read \in ReadOutcomes(suspended[k]) :
    \E img \in Asked(~read.raised, ImdecodeOutcomes) :
    \E det \in Asked(~read.raised /\ ~img.raised, DetectOutcomes) :
        LET image == suspended[k]
            out == scan_image(image, read, img, det) IN
        /\ req' = [endpoint |-> "/scan-image", image |-> image]
        /\ resp' = out.resp
        /\ calls' = out.calls
        /\ suspended' = [i \in 1..(Len(suspended) - 1) |->
                            IF i < k THEN suspended[i] ELSE suspended[i + 1]]
        /\ UNCHANGED hashSeed

\* the service process is started again: a new hash key is drawn, and the
\* requests that were waiting are gone with the old process
Restart ==
    /\ hashSeed' \in HashSeeds
    /\ suspended' = <<>>
    /\ UNCHANGED <<req, resp, calls>>

Next ==
    \/ CreateBarcode
    \/ CreateQrCode
    \/ ScanImage
    \/ ScanImageAwaitRead
    \/ ScanImageResume
    \/ Restart

Spec == Init /\ [][Next]_vars

----------------------------------------------------------------------------
(* What the properties below read from the state *)

IsBarcodeRequest == req.endpoint = "/create-barcode"
IsQrRequest == req.endpoint = "/create-qr-code"
IsScanRequest == req.endpoint = "/scan-image"

\* the body supplies field f as a JSON string / number
GivesStr(f) == Has(req.body, f) /\ IsStr(req.body[f])
GivesNum(f) == Has(req.body, f) /\ IsNum(req.body[f])

\* the calls of one kind made for the request
CallsOf(op) == {i \in DOMAIN calls : calls[i].op = op}

EncoderInvoked == CallsOf("encode") # {}

\* the request was answered with a client error
ClientError == resp.status >= 400 /\ resp.status <= 499

\* the request was refused by the schema, with an error at field f
RejectedAt(f) ==
    /\ resp.kind = "validation"
    /\ \E i \in DOMAIN resp.detail : resp.detail[i].loc = f

\* text sub occurs in text s
Occurs(sub, s) ==
    \E i \in 0..(Len(s) - Len(sub)) : SubSeq(s, i + 1, i + Len(sub)) = sub

----------------------------------------------------------------------------
(* C1 *)

\* the fixed-length numeric formats and the length each requires
FixedLengthFormats == {T_ean8, T_ean13, T_upc, T_isbn10, T_isbn13}

RequiredLength(format) ==
    CASE format = T_ean8 -> 7
      [] format = T_ean13 -> 12
      [] format = T_upc -> 11
      [] format = T_isbn10 -> 9
      [] format = T_isbn13 -> 12

\* the request names a fixed-length format and its data, trimmed or not,
\* is not all digits of the required length
IllShapedFixedLength ==
    /\ IsBarcodeRequest
    /\ GivesStr("data") /\ GivesStr("format")
    /\ req.body.format.s \in FixedLengthFormats
    /\ \A d \in {req.body.data.s, Strip(req.body.data.s)} :
          ~(AllDigits(d) /\ Len(d) = RequiredLength(req.body.format.s))

\* C1: a barcode request for ean8, ean13, upc, isbn10 or isbn13 whose data
\* is not all digits of exactly the required length fails with a 400-class
\* validation error, and the encoder is never invoked for it.
C1_FixedLengthCheckedBeforeEncoding ==
    IllShapedFixedLength => (ClientError /\ ~EncoderInvoked)

----------------------------------------------------------------------------
(* C2 *)

\* C2: a barcode request whose data is empty after trimming surrounding
\* whitespace is rejected with a validation error before any encoding; no
\* request reaches the encoder with empty data.
C2_EmptyDataNeverEncoded ==
    IsBarcodeRequest =>
        /\ (GivesStr("data") /\ Strip(req.body.data.s) = <<>>)
              => (resp.kind = "validation" /\ ~EncoderInvoked)
        /\ \A i \in CallsOf("encode") : calls[i].data # <<>>

----------------------------------------------------------------------------
(* C3 *)

\* C3: every format that passes request validation is a key of the format
\* registry, so the registry lookup of the dispatcher never fails; a
\* request with any other format is rejected with a 422 before dispatch,
\* with no lookup and no encoder call.
C3_ValidatedFormatIsRegistryKey ==
    IsBarcodeRequest =>
        /\ \A i \in CallsOf("lookup") : calls[i].found
        /\ resp.kind # "validation"
              => (GivesStr("format") /\ req.body.format.s \in BARCODE_FORMATS)
        /\ ~(GivesStr("format") /\ req.body.format.s \in BARCODE_FORMATS)
              => (resp.status = 422 /\ RejectedAt("format") /\ calls = <<>>)

\* the last key of the registry was looked up and found, and encoded
C3_Witness ==
    /\ IsBarcodeRequest
    /\ GivesStr("format") /\ req.body.format.s = T_pzn
    /\ \E i \in CallsOf("lookup") : calls[i].key = T_pzn /\ calls[i].found
    /\ EncoderInvoked

----------------------------------------------------------------------------
(* C4 *)

\* the encoder was called for the request and raised
EncoderRaised == \E i \in CallsOf("encode") : calls[i].outcome.raised

\* the text the request asked to encode
SubmittedData == req.body.data.s

\* the format the request asked for
SubmittedFormat == IF IsQrRequest THEN T_qrcode ELSE req.body.format.s

\* C4 as stated: any failure raised by the barcode or QR encoder is
\* reported as a 400 carrying the original data, the format and the
\* underlying message, and never as a 500.
C4_EncoderFailureCarriesDataAndFormat ==
    EncoderRaised =>
        /\ resp.status = 400
        /\ \A i \in CallsOf("encode") :
              /\ Occurs(calls[i].outcome.msg, resp.detail)
              /\ Occurs(SubmittedData, resp.detail)
              /\ Occurs(SubmittedFormat, resp.detail)

FailurePrefix(lib) ==
    IF lib = "qrcode" THEN "Failed to generate QR code: "
    ELSE "Failed to generate barcode: "

\* C4, amended: any failure raised by the barcode or QR encoder is caught
\* in the helper and reported as a 400 whose detail is the helper's fixed
\* prefix followed by the underlying message (and nothing of the request);
\* it is never turned into a 500 by the endpoint.
C4_EncoderFailureIs400WithMessage ==
    \A i \in CallsOf("encode") :
        calls[i].outcome.raised =>
            /\ resp.status = 400
            /\ resp.kind = "error"
            /\ resp.detail = <<FailurePrefix(calls[i].lib)>> \o calls[i].outcome.msg

\* the barcode encoder raised for a well-formed request: a 400 was sent
C4_Witness ==
    /\ IsBarcodeRequest
    /\ EncoderRaised
    /\ resp.status = 400

----------------------------------------------------------------------------
(* C5 *)

\* C5 as stated: a barcode request with width, height, quiet_zone or
\* text_distance equal to 0 or negative is rejected with a validation
\* error naming the field, and is never passed to the encoder.
C5_StylingStrictlyPositive ==
    IsBarcodeRequest =>
        \A f \in {"width", "height", "quiet_zone", "text_distance"} :
            (GivesNum(f) /\ req.body[f].n <= 0)
                => (RejectedAt(f) /\ ~EncoderInvoked)

\* C5, amended: width and height must be strictly positive, quiet_zone and
\* text_distance must not be negative: a request with width or height
\* equal to 0 or negative, or with quiet_zone or text_distance negative,
\* is rejected with a validation error naming the field and is never
\* passed to the encoder; quiet_zone or text_distance equal to 0 is not an
\* error of that field.
C5_StylingBounds ==
    IsBarcodeRequest =>
        /\ \A f \in {"width", "height"} :
              (GivesNum(f) /\ req.body[f].n <= 0)
                  => (RejectedAt(f) /\ ~EncoderInvoked)
        /\ \A f \in {"quiet_zone", "text_distance"} :
              /\ (GivesNum(f) /\ req.body[f].n < 0)
                    => (RejectedAt(f) /\ ~EncoderInvoked)
              /\ (GivesNum(f) /\ req.body[f].n = 0) => ~RejectedAt(f)

\* a width of 0 was refused, the error naming width
C5_Witness ==
    /\ IsBarcodeRequest
    /\ GivesNum("width") /\ req.body.width.n = 0
    /\ RejectedAt("width")
    /\ ~EncoderInvoked

----------------------------------------------------------------------------
(* C6 *)

\* the declared content type is present and denotes an image
DeclaresImage(content_type) ==
    /\ IsStr(content_type)
    /\ Len(content_type.s) >= 6
    /\ SubSeq(content_type.s, 1, 6) = <<"i", "m", "a", "g", "e", "/">>

\* cv2.imdecode made no image of the bytes
Undecodable(out) == out.raised \/ out.value = "None"

\* C6: an upload to the scan endpoint whose declared content type is
\* absent or does not denote an image, or whose bytes do not form a
\* decodable image, fails with a 400-class error and never with a 500; in
\* the content-type case the upload is not read and the detector is not
\* invoked.
C6_NonImageUploadIsClientError ==
    IsScanRequest =>
        /\ ~DeclaresImage(req.image.content_type)
              => (resp.status = 400 /\ calls = <<>>)
        /\ \A i \in CallsOf("imdecode") :
              Undecodable(calls[i].outcome)
                  => (ClientError /\ CallsOf("detect") = {})

\* an upload declared image/png whose bytes imdecode returns None for
C6_Witness ==
    /\ IsScanRequest
    /\ DeclaresImage(req.image.content_type)
    /\ \E i \in CallsOf("imdecode") :
          ~calls[i].outcome.raised /\ calls[i].outcome.value = "None"
    /\ resp.status = 400

----------------------------------------------------------------------------
(* C7 *)

\* result r is detection d: its payload decoded, its type, its quality
\* when it has one, its polygon point by point
ResultOf(r, d) ==
    /\ r.data = decode_utf8(d.data).value
    /\ r.type = d.type
    /\ r.quality = (IF Has(d, "quality") THEN Num(d.quality) ELSE Null)
    /\ Len(r.polygon) = Len(d.polygon)
    /\ \A j \in DOMAIN d.polygon :
          r.polygon[j] = <<d.polygon[j].x, d.polygon[j].y>>

\* C7: for every successful scan, codes_found is the number of detections
\* the detector returned and results holds one ScanResult per detection,
\* in the detector's order; an image with no symbol yields success=true,
\* codes_found=0, results=[] and not an error.
C7_ScanReportsEveryDetectionInOrder ==
    IsScanRequest =>
        /\ resp.status = 200 =>
              /\ resp.success
              /\ \E i \in CallsOf("detect") :
                    /\ ~calls[i].outcome.raised
                    /\ LET dets == calls[i].outcome.value IN
                       /\ resp.codes_found = Len(dets)
                       /\ Len(resp.results) = Len(dets)
                       /\ \A k \in DOMAIN dets : ResultOf(resp.results[k], dets[k])
        /\ \A i \in CallsOf("detect") :
              (~calls[i].outcome.raised /\ calls[i].outcome.value = <<>>)
                  => /\ resp.status = 200
                     /\ resp.success
                     /\ resp.codes_found = 0
                     /\ resp.results = <<>>

\* a successful scan of an image with two different symbols
C7_Witness ==
    /\ IsScanRequest
    /\ resp.status = 200
    /\ resp.codes_found = 2
    /\ resp.results[1] # resp.results[2]

----------------------------------------------------------------------------
(* C8 *)

\* C8: the filename of a QR code download is a stable function of the
\* data: two requests with the same data are given the same filename,
\* whether or not the service process was started anew between them.
C8_QrFilenameStableAcrossRuns ==
    [][(/\ req.endpoint = "/create-qr-code" /\ resp.kind = "stream"
        /\ req'.endpoint = "/create-qr-code" /\ resp'.kind = "stream"
        /\ req'.body.data = req.body.data)
          => resp'.content_disposition = resp.content_disposition]_vars

----------------------------------------------------------------------------
(* C9 *)

\* the request asks for the inline reply (return_format base64, the default)
AsksInline ==
    ~Has(req.body, "return_format") \/ req.body.return_format = Str(T_base64)

\* C9 as stated: the reply to a successful barcode request that asks for
\* the inline response has success=true, a non-empty image_base64, and
\* format and data equal to the format and the data submitted.  (Stated
\* for data that is not blank: blank data is the case of C2.)
C9_InlineReplyEchoesSubmittedData ==
    (/\ IsBarcodeRequest /\ resp.status = 200 /\ AsksInline
     /\ Strip(req.body.data.s) # <<>>) =>
        /\ resp.kind = "json"
        /\ resp.success
        /\ resp.image_base64 # <<>>
        /\ resp.format = req.body.format.s
        /\ resp.data = req.body.data.s

\* C9, amended: the reply to a successful barcode request that asks for
\* the inline response has success=true, a non-empty image_base64, format
\* equal to the format submitted, and data equal to the data submitted
\* with its surrounding whitespace trimmed.
C9_InlineReplyEchoesTrimmedData ==
    (IsBarcodeRequest /\ resp.status = 200 /\ AsksInline) =>
        /\ resp.kind = "json"
        /\ resp.success
        /\ resp.image_base64 # <<>>
        /\ resp.format = req.body.format.s
        /\ resp.data = Strip(req.body.data.s)

\* an inline reply to data submitted with surrounding whitespace
C9_Witness ==
    /\ IsBarcodeRequest
    /\ resp.status = 200 /\ AsksInline
    /\ resp.kind = "json"
    /\ req.body.data.s # Strip(req.body.data.s)
    /\ resp.data # <<>>

----------------------------------------------------------------------------
(* C10 *)

\* C10: the 500 sent for an unanticipated failure does not depend on the
\* text of the exception: two unanticipated failures, whatever their
\* messages, are answered with the same response.
C10_InternalErrorBodyIsFixed ==
    [][(resp.status = 500 /\ resp'.status = 500) => resp' = resp]_vars

----------------------------------------------------------------------------
(* C11 *)

\* the body supplies field f as a JSON number: whole, not whole, or whole
\* and of ten digits or more
GivesNumber(f) ==
    /\ Has(req.body, f)
    /\ IsNum(req.body[f]) \/ IsFrac(req.body[f]) \/ IsBigNum(req.body[f])

\* the font size supplied is a JSON integer from 1 to 100
FontSizeInRange ==
    /\ IsNum(req.body.font_size)
    /\ req.body.font_size.n >= 1
    /\ req.body.font_size.n <= 100

\* the font size supplied is a string of one to three digits that spells a
\* whole number from 1 to 100
FontSizeSpelledInRange ==
    /\ IsStr(req.body.font_size)
    /\ Len(req.body.font_size.s) \in 1..3
    /\ AllDigits(req.body.font_size.s)
    /\ DigitsToNat(req.body.font_size.s) \in 1..100

\* the request reached the encoder with font size v among the options
EncodedWithFontSize(v) ==
    \E i \in CallsOf("encode") : calls[i].options.font_size = v

\* C11 as stated: whatever a barcode request supplies as font_size, it
\* passes the validation of font_size exactly when it is an integer from 1
\* to 100: such a value is no error of font_size and reaches the encoder,
\* any other value is rejected with a validation error at font_size and the
\* encoder is not invoked.
C11_FontSizeAcceptedExactlyInRange ==
    (IsBarcodeRequest /\ Has(req.body, "font_size")) =>
        IF FontSizeInRange
        THEN /\ ~RejectedAt("font_size")
             /\ resp.kind # "validation" => EncodedWithFontSize(req.body.font_size)
        ELSE RejectedAt("font_size") /\ ~EncoderInvoked

\* C11: a barcode request that supplies a JSON number as font_size passes
\* the validation of font_size exactly when the number is an integer from 1
\* to 100: 0, 101, a number that is not whole and a whole number of ten
\* digits or more are rejected with a validation error at font_size and the
\* encoder is not invoked; 1 and 100 are no error of font_size, and a
\* request that validation passes reaches the encoder with that font size.
\* A font_size of null is accepted as well and reaches the encoder as None;
\* so is a string of digits that spells a whole number from 1 to 100, which
\* reaches the encoder as that number.
C11_FontSizeNumberInRangeOrNull ==
    (IsBarcodeRequest /\ Has(req.body, "font_size")) =>
        /\ GivesNumber("font_size") =>
               IF FontSizeInRange
               THEN /\ ~RejectedAt("font_size")
                    /\ resp.kind # "validation" =>
                           EncodedWithFontSize(req.body.font_size)
               ELSE RejectedAt("font_size") /\ ~EncoderInvoked
        /\ IsNull(req.body.font_size) =>
               /\ ~RejectedAt("font_size")
               /\ resp.kind # "validation" => EncodedWithFontSize(Null)
        /\ FontSizeSpelledInRange =>
               /\ ~RejectedAt("font_size")
               /\ resp.kind # "validation" =>
                      EncodedWithFontSize(Num(DigitsToNat(req.body.font_size.s)))

\* a font size of 100 passed validation and reached the encoder
C11_Witness ==
    /\ IsBarcodeRequest
    /\ GivesNumber("font_size") /\ req.body.font_size = Num(100)
    /\ resp.kind # "validation"
    /\ EncodedWithFontSize(Num(100))

----------------------------------------------------------------------------
(* C12 *)

\* the invocations of the external encoder or detector for the request
LibraryCalls == CallsOf("encode") \cup CallsOf("detect")

\* the request did not pass the validation of its endpoint: the parsing of
\* the body and the schema for a generation request, the declared content
\* type for an upload
FailsValidation ==
    \/ IsBarcodeRequest /\ (~BodyParses(req.body) \/ BarcodeErrors(req.body) # <<>>)
    \/ IsQrRequest /\ (~BodyParses(req.body) \/ QrErrors(req.body) # <<>>)
    \/ IsScanRequest /\ ~DeclaresImage(req.image.content_type)

\* C12: in the handling of a generate or scan request the encoder or
\* detector is invoked at most once, and only for a request that passed
\* validation; a request rejected by validation makes no call at all; a
\* failure of the invocation is the last call made (nothing is retried)
\* and is what the caller is told, as one 400 carrying its message.
C12_LibraryInvokedOnceNoRetry ==
    /\ Cardinality(LibraryCalls) <= 1
    /\ LibraryCalls # {} => ~FailsValidation
    /\ FailsValidation => (calls = <<>> /\ ClientError)
    /\ \A i \in LibraryCalls :
          calls[i].outcome.raised
              => /\ i = Len(calls)
                 /\ resp.status = 400
                 /\ resp.kind = "error"
                 /\ Occurs(calls[i].outcome.msg, resp.detail)

\* the detector was invoked once for an upload declared an image, it
\* failed, and the reply is the 400 with its message
C12_Witness ==
    /\ IsScanRequest
    /\ ~FailsValidation
    /\ Cardinality(CallsOf("detect")) = 1
    /\ \E i \in CallsOf("detect") :
          /\ calls[i].outcome.raised
          /\ i = Len(calls)
          /\ Occurs(calls[i].outcome.msg, resp.detail)
    /\ resp.status = 400

----------------------------------------------------------------------------
(* C13 *)

\* the detections the detector returned for the upload
DetectionsReturned ==
    IF \E i \in CallsOf("detect") : ~calls[i].outcome.raised
    THEN (CHOOSE c \in {calls[i] : i \in CallsOf("detect")} : ~c.outcome.raised).outcome.value
    ELSE <<>>

\* the payloads of the detections that are not UTF-8 text
UndecodablePayloads ==
    {k \in DOMAIN DetectionsReturned : decode_utf8(DetectionsReturned[k].data).raised}

\* the first of them, the one the loop stops at
FirstUndecodable ==
    CHOOSE m \in UndecodablePayloads : \A n \in UndecodablePayloads : m <= n

\* C13: when the payload of any one detection of a scan cannot be decoded
\* as text, the whole scan fails with a 400 telling the decoding failure:
\* the reply is no scan result, so it lists none of the other detections.
C13_UndecodablePayloadFailsScan ==
    (IsScanRequest /\ UndecodablePayloads # {}) =>
        /\ resp.status = 400
        /\ resp.kind = "error"
        /\ resp.detail = <<"Failed to scan image: ">>
                            \o decode_utf8(DetectionsReturned[FirstUndecodable].data).msg
        /\ ~Has(resp, "results")
        /\ ~Has(resp, "codes_found")

\* two detections, the first one text and the second one not: the scan
\* failed with a 400
C13_Witness ==
    /\ IsScanRequest
    /\ Len(DetectionsReturned) = 2
    /\ UndecodablePayloads = {2}
    /\ resp.status = 400
    /\ resp.kind = "error"

============================================================================
